---- MODULE Spec2Model ----
(***************************************************************************)
(* Model of the telegram-logger-bot ingestion pipeline: the storage access *)
(* layer (db.py), the classifier helpers and the six message handlers      *)
(* (handlers.py), run as concurrent tasks over the one shared connection   *)
(* that bot.py injects into the dispatcher.                                *)
(*                                                                         *)
(* Spec is the whole program: concurrent handler tasks whose awaits may    *)
(* raise.  SeqSpec delivers one update at a time (awaits may raise);       *)
(* ConcSpec interleaves handlers whose awaits all succeed.                 *)
(*                                                                         *)
(* Nullable values are options: None is the empty tuple, Some(v) is <<v>>. *)
(* Wall-clock columns (updated_at, created_at) are left out of the rows.   *)
(***************************************************************************)
EXTENDS Integers, Sequences, FiniteSets, TLC

\* ------------------------------------------------------------------ bounds
MaxEvents == 2
MaxInFlight == 2
MaxFailures == 1
MaxLen == 5

\* ----------------------------------------------------------------- options
None == <<>>
Some(v) == <<v>>
IsNone(o) == Len(o) = 0
Val(o) == o[1]

\* Python truthiness of an optional value: None is falsy, an object is
\* truthy, and a list, a dict or a text is truthy when it is not empty.
TruthyObj(o) == Len(o) > 0
TruthySeq(o) == Len(o) > 0 /\ Len(o[1]) > 0
TruthyStr(o) == Len(o) > 0 /\ o[1] # ""

\* ---------------------------------------------------- classification sets
MEDIA_CONTENT_TYPES ==
    {"photo", "video", "document", "audio", "voice", "video_note", "sticker", "animation"}

SERVICE_CONTENT_TYPES ==
    {"new_chat_members", "left_chat_member", "new_chat_title", "pinned_message"}

\* --------------------------------------------------------- inbound updates
\* A text that the code inspects or builds (message text, caption, type
\* label, forward name) is a sequence of fragments, so that startswith and
\* concatenation act on it; S("x") is the literal "x".
S(x) == <<x>>
Chat(id, title, type) == [id |-> id, title |-> title, type |-> type]
User(id, username, first, last) ==
    [id |-> id, username |-> username, first_name |-> first, last_name |-> last]

ChatG1 == Chat(-1001, Some("Group"), Some("supergroup"))
ChatG1b == Chat(-1001, None, Some("group"))
ChatP2 == Chat(7, None, Some("private"))

Ann == User(100, Some("ann"), Some("Ann"), Some("Lee"))
AnnB == User(100, None, Some("Anna"), None)
Bob == User(200, Some("bob"), Some("Bob"), None)
Cid == User(300, None, Some("Cid"), None)

BaseMsg ==
    [upd |-> "message", content_type |-> "text", chat |-> ChatG1, from_user |-> Some(Ann),
     message_id |-> 1, date |-> 10, text |-> None, caption |-> None,
     reply_to_message |-> None, forward_origin |-> None,
     photo |-> None, video |-> None, document |-> None, audio |-> None,
     voice |-> None, video_note |-> None, sticker |-> None, animation |-> None,
     new_chat_members |-> None, left_chat_member |-> None,
     new_chat_title |-> None, pinned_message |-> None]

PhotoSmall == [file_id |-> "ph_s", file_size |-> Some(10), width |-> Some(90), height |-> Some(90)]
PhotoLarge == [file_id |-> "ph_l", file_size |-> None, width |-> Some(800), height |-> Some(600)]
Doc == [file_id |-> "doc1", file_size |-> Some(100000), mime_type |-> Some("application/pdf"),
        file_name |-> Some("report.pdf")]

Catalogue ==
    << \* 1: new text message
       [BaseMsg EXCEPT !.text = Some(<<"h", "i">>)],
       \* 2: edit of message 1 in the same chat; chat title and username now null
       [BaseMsg EXCEPT !.upd = "edited_message", !.text = Some(<<"h", "o">>),
                       !.chat = ChatG1b, !.from_user = Some(AnnB), !.date = 11,
                       !.reply_to_message = Some([message_id |-> 1])],
       \* 3: new photo with caption, two sizes, in a private chat
       [BaseMsg EXCEPT !.content_type = "photo", !.chat = ChatP2, !.from_user = Some(Bob),
                       !.photo = Some(<<PhotoSmall, PhotoLarge>>),
                       !.forward_origin = Some([kind |-> "channel",
                                                chat |-> Chat(-55, Some("News"), Some("channel"))]),
                       !.caption = Some(<<"c">>), !.date = 12],
       \* 4: edited document, channel post without sender
       [BaseMsg EXCEPT !.upd = "edited_message", !.content_type = "document",
                       !.chat = ChatP2, !.from_user = None, !.document = Some(Doc),
                       !.message_id = 2, !.date = 13],
       \* 5: two members join
       [BaseMsg EXCEPT !.content_type = "new_chat_members",
                       !.new_chat_members = Some(<<Bob, Cid>>), !.message_id = 3, !.date = 14],
       \* 6: a member is removed by another user
       [BaseMsg EXCEPT !.content_type = "left_chat_member",
                       !.left_chat_member = Some(Cid), !.message_id = 4, !.date = 15],
       \* 7: title change, no sender
       [BaseMsg EXCEPT !.content_type = "new_chat_title", !.from_user = None,
                       !.new_chat_title = Some("Renamed"), !.message_id = 5, !.date = 16],
       \* 8: pinned message
       [BaseMsg EXCEPT !.content_type = "pinned_message", !.chat = ChatP2,
                       !.from_user = Some(Bob),
                       !.pinned_message = Some([message_id |-> 1]), !.message_id = 6,
                       !.date = 17],
       \* 9: bot command: text beginning with "/"
       [BaseMsg EXCEPT !.text = Some(<<"/", "s">>), !.message_id = 7, !.date = 18],
       \* 10: new message of a kind outside the text, media and service sets
       [BaseMsg EXCEPT !.content_type = "location", !.chat = ChatP2,
                       !.from_user = Some(Bob), !.message_id = 8, !.date = 19],
       \* 11: edited message of such a kind (a live location update)
       [BaseMsg EXCEPT !.upd = "edited_message", !.content_type = "location",
                       !.chat = ChatP2, !.from_user = Some(Bob), !.message_id = 8,
                       !.date = 20] >>

UpdateIds == 1..Len(Catalogue)

\* The same update as a channel post: Telegram sends no from_user.
Anonymous(m) == [m EXCEPT !.from_user = None]

\* Every update of the catalogue, followed by its channel-post form.
Updates == Catalogue \o [i \in UpdateIds |-> Anonymous(Catalogue[i])]
AnonIds == 1..Len(Updates)

\* ------------------------------------------------------------ db.py layer
EmptyStore == [chats |-> {}, users |-> {}, messages |-> <<>>, events |-> <<>>]

\* json.dumps of a dict: one member per key, in insertion order; a None
\* value becomes the JSON literal null.
JNull == [json |-> "null"]
JVal(v) == [json |-> "value", v |-> v]
json_dumps(d) ==
    [i \in 1..Len(d) |-> <<d[i][1], IF IsNone(d[i][2]) THEN JNull ELSE JVal(Val(d[i][2]))>>]

\* A plausible slip: the comprehension keeps every item.
strip_none_keeps_all(d) == d

\* {k: v for k, v in media_meta.items() if v is not None}
RECURSIVE strip_none(_)
strip_none(d) ==
    IF Len(d) = 0 THEN <<>>
    ELSE IF IsNone(Head(d)[2]) THEN strip_none(Tail(d))
         ELSE <<Head(d)>> \o strip_none(Tail(d))

upsert_chat_title_only(store, chat_id, title, chat_type) ==
    IF \E r \in store.chats : r.chat_id = chat_id
    THEN [store EXCEPT !.chats =
            {IF r.chat_id = chat_id THEN [r EXCEPT !.title = title] ELSE r : r \in store.chats}]
    ELSE [store EXCEPT !.chats =
            @ \cup {[chat_id |-> chat_id, title |-> title, type |-> chat_type]}]

\* A plausible slip: the DO UPDATE reaches every row, not the conflicting one.
upsert_chat_update_all(store, chat_id, title, chat_type) ==
    IF \E r \in store.chats : r.chat_id = chat_id
    THEN [store EXCEPT !.chats =
            {[r EXCEPT !.title = title, !.type = chat_type] : r \in store.chats}]
    ELSE [store EXCEPT !.chats =
            @ \cup {[chat_id |-> chat_id, title |-> title, type |-> chat_type]}]

upsert_chat(store, chat_id, title, chat_type) ==
    IF \E r \in store.chats : r.chat_id = chat_id
    THEN [store EXCEPT !.chats =
            {IF r.chat_id = chat_id THEN [r EXCEPT !.title = title, !.type = chat_type]
                                    ELSE r : r \in store.chats}]
    ELSE [store EXCEPT !.chats =
            @ \cup {[chat_id |-> chat_id, title |-> title, type |-> chat_type]}]

upsert_user_do_nothing(store, user_id, username, first_name, last_name) ==
    IF \E r \in store.users : r.user_id = user_id
    THEN store
    ELSE [store EXCEPT !.users =
            @ \cup {[user_id |-> user_id, username |-> username,
                     first_name |-> first_name, last_name |-> last_name]}]

upsert_user(store, user_id, username, first_name, last_name) ==
    IF \E r \in store.users : r.user_id = user_id
    THEN [store EXCEPT !.users =
            {IF r.user_id = user_id
             THEN [r EXCEPT !.username = username, !.first_name = first_name,
                            !.last_name = last_name]
             ELSE r : r \in store.users}]
    ELSE [store EXCEPT !.users =
            @ \cup {[user_id |-> user_id, username |-> username,
                     first_name |-> first_name, last_name |-> last_name]}]

MessageRow(id, msg_id, chat_id, user_id, date, msg_type, text, media_file_id, meta_json, reply_to, fwd_from, fwd_name, is_edit) ==
    [id |-> id, msg_id |-> msg_id, chat_id |-> chat_id, user_id |-> user_id,
     date |-> date, type |-> msg_type, text |-> text, media_file_id |-> media_file_id,
     media_meta |-> meta_json, reply_to |-> reply_to, fwd_from |-> fwd_from,
     fwd_name |-> fwd_name, is_edit |-> IF is_edit THEN 1 ELSE 0]

\* A plausible slip: an edit overwrites the stored row of the same
\* (msg_id, chat_id) instead of appending.
insert_message_update_on_edit(store, msg_id, chat_id, user_id, date, msg_type, text, media_file_id, media_meta, reply_to, fwd_from, fwd_name, is_edit) ==
    LET meta_json == IF TruthySeq(media_meta)
                     THEN Some(json_dumps(strip_none(Val(media_meta)))) ELSE None
        hit == {i \in 1..Len(store.messages) :
                  store.messages[i].msg_id = msg_id /\ store.messages[i].chat_id = chat_id}
    IN  IF is_edit /\ hit # {}
        THEN [store EXCEPT !.messages =
                [i \in 1..Len(@) |->
                    IF i \in hit
                    THEN MessageRow(@[i].id, msg_id, chat_id, user_id, date, msg_type, text,
                                    media_file_id, meta_json, reply_to, fwd_from, fwd_name,
                                    is_edit)
                    ELSE @[i]]]
        ELSE [store EXCEPT !.messages =
                Append(@, MessageRow(Len(@) + 1, msg_id, chat_id, user_id, date, msg_type,
                                     text, media_file_id, meta_json, reply_to, fwd_from,
                                     fwd_name, is_edit))]

insert_message(store, msg_id, chat_id, user_id, date, msg_type, text, media_file_id, media_meta, reply_to, fwd_from, fwd_name, is_edit) ==
    LET meta_json == IF TruthySeq(media_meta)
                     THEN Some(json_dumps(strip_none(Val(media_meta)))) ELSE None
    IN  [store EXCEPT !.messages =
            Append(@, MessageRow(Len(@) + 1, msg_id, chat_id, user_id, date, msg_type,
                                 text, media_file_id, meta_json, reply_to, fwd_from,
                                 fwd_name, is_edit))]

EventRow(id, chat_id, user_id, event_type, data_json, date) ==
    [id |-> id, chat_id |-> chat_id, user_id |-> user_id, type |-> event_type,
     data |-> data_json, date |-> date]

\* A plausible slip: INSERT OR REPLACE on (chat_id, type) drops the earlier
\* event of the same kind in that chat.
insert_event_or_replace(store, chat_id, event_type, date, user_id, data) ==
    LET data_json == IF TruthySeq(data) THEN Some(json_dumps(Val(data))) ELSE None
        kept == SelectSeq(store.events,
                          LAMBDA r : ~(r.chat_id = chat_id /\ r.type = event_type))
    IN  [store EXCEPT !.events =
            Append(kept, EventRow(Len(@) + 1, chat_id, user_id, event_type, data_json, date))]

\* A plausible slip: the data dict is filtered like media_meta.
insert_event_strips_none(store, chat_id, event_type, date, user_id, data) ==
    LET data_json == IF TruthySeq(data) THEN Some(json_dumps(strip_none(Val(data)))) ELSE None
    IN  [store EXCEPT !.events =
            Append(@, EventRow(Len(@) + 1, chat_id, user_id, event_type, data_json, date))]

insert_event(store, chat_id, event_type, date, user_id, data) ==
    LET data_json == IF TruthySeq(data) THEN Some(json_dumps(Val(data))) ELSE None
    IN  [store EXCEPT !.events =
            Append(@, EventRow(Len(@) + 1, chat_id, user_id, event_type, data_json, date))]

\* ---------------------------------------------------- handlers.py helpers
\* datetime.isoformat(): the text form of the timestamp.
isoformat(d) == <<"iso8601", d>>

\* str(ContentType.X), the label stored by the catch-all handler.
str_ct(ct) == <<"ContentType.", ct>>

startswith(t, c) == Len(t) > 0 /\ t[1] = c

\* aiogram's User.full_name
full_name(u) ==
    IF TruthyStr(u.last_name) THEN <<Val(u.first_name), " ", Val(u.last_name)>>
    ELSE <<Val(u.first_name)>>

\* A plausible slip: the MessageOriginHiddenUser branch is missing.
_extract_forward_info_no_hidden(message) ==
    LET origin == message.forward_origin
    IN  IF IsNone(origin) THEN <<None, None>>
        ELSE LET o == Val(origin)
             IN  CASE o.kind = "user" -> <<Some(o.sender_user.id), Some(full_name(o.sender_user))>>
                   [] o.kind = "chat" ->
                        <<Some(o.sender_chat.id),
                          IF IsNone(o.sender_chat.title) THEN None
                          ELSE Some(S(Val(o.sender_chat.title)))>>
                   [] o.kind = "channel" ->
                        <<Some(o.chat.id),
                          IF IsNone(o.chat.title) THEN None ELSE Some(S(Val(o.chat.title)))>>
                   [] OTHER -> <<None, None>>

_extract_forward_info(message) ==
    LET origin == message.forward_origin
    IN  IF IsNone(origin) THEN <<None, None>>
        ELSE LET o == Val(origin)
             IN  CASE o.kind = "user" -> <<Some(o.sender_user.id), Some(full_name(o.sender_user))>>
                   [] o.kind = "hidden_user" -> <<None, Some(S(o.sender_user_name))>>
                   [] o.kind = "chat" ->
                        <<Some(o.sender_chat.id),
                          IF IsNone(o.sender_chat.title) THEN None
                          ELSE Some(S(Val(o.sender_chat.title)))>>
                   [] o.kind = "channel" ->
                        <<Some(o.chat.id),
                          IF IsNone(o.chat.title) THEN None ELSE Some(S(Val(o.chat.title)))>>
                   [] OTHER -> <<None, None>>

\* A plausible slip: the video note's length is read from its duration.
_extract_media_meta_length_slip(message) ==
    LET ct == message.content_type
    IN  IF ct = "photo" /\ TruthySeq(message.photo) THEN
            LET photo == Val(message.photo)[Len(Val(message.photo))]
            IN  <<Some(photo.file_id),
                  Some(<< <<"size", photo.file_size>>, <<"width", photo.width>>,
                          <<"height", photo.height>> >>),
                  S("photo")>>
        ELSE IF ct = "video" /\ TruthyObj(message.video) THEN
            LET v == Val(message.video)
            IN  <<Some(v.file_id),
                  Some(<< <<"size", v.file_size>>, <<"mime", v.mime_type>>,
                          <<"name", v.file_name>>, <<"duration", v.duration>>,
                          <<"width", v.width>>, <<"height", v.height>> >>),
                  S("video")>>
        ELSE IF ct = "document" /\ TruthyObj(message.document) THEN
            LET d == Val(message.document)
            IN  <<Some(d.file_id),
                  Some(<< <<"size", d.file_size>>, <<"mime", d.mime_type>>,
                          <<"name", d.file_name>> >>),
                  S("document")>>
        ELSE IF ct = "audio" /\ TruthyObj(message.audio) THEN
            LET a == Val(message.audio)
            IN  <<Some(a.file_id),
                  Some(<< <<"size", a.file_size>>, <<"mime", a.mime_type>>,
                          <<"name", a.file_name>>, <<"duration", a.duration>> >>),
                  S("audio")>>
        ELSE IF ct = "voice" /\ TruthyObj(message.voice) THEN
            LET v == Val(message.voice)
            IN  <<Some(v.file_id),
                  Some(<< <<"size", v.file_size>>, <<"mime", v.mime_type>>,
                          <<"duration", v.duration>> >>),
                  S("voice")>>
        ELSE IF ct = "video_note" /\ TruthyObj(message.video_note) THEN
            LET vn == Val(message.video_note)
            IN  <<Some(vn.file_id),
                  Some(<< <<"size", vn.file_size>>, <<"duration", vn.duration>>,
                          <<"length", vn.duration>> >>),
                  S("video_note")>>
        ELSE IF ct = "sticker" /\ TruthyObj(message.sticker) THEN
            LET s == Val(message.sticker)
            IN  <<Some(s.file_id),
                  Some(<< <<"emoji", s.emoji>>, <<"set_name", s.set_name>>,
                          <<"width", s.width>>, <<"height", s.height>> >>),
                  S("sticker")>>
        ELSE IF ct = "animation" /\ TruthyObj(message.animation) THEN
            LET a == Val(message.animation)
            IN  <<Some(a.file_id),
                  Some(<< <<"size", a.file_size>>, <<"mime", a.mime_type>>,
                          <<"name", a.file_name>>, <<"duration", a.duration>>,
                          <<"width", a.width>>, <<"height", a.height>> >>),
                  S("animation")>>
        ELSE <<None, None, IF ct # "" THEN str_ct(ct) ELSE S("unknown")>>

_extract_media_meta(message) ==
    LET ct == message.content_type
    IN  IF ct = "photo" /\ TruthySeq(message.photo) THEN
            LET photo == Val(message.photo)[Len(Val(message.photo))]
            IN  <<Some(photo.file_id),
                  Some(<< <<"size", photo.file_size>>, <<"width", photo.width>>,
                          <<"height", photo.height>> >>),
                  S("photo")>>
        ELSE IF ct = "video" /\ TruthyObj(message.video) THEN
            LET v == Val(message.video)
            IN  <<Some(v.file_id),
                  Some(<< <<"size", v.file_size>>, <<"mime", v.mime_type>>,
                          <<"name", v.file_name>>, <<"duration", v.duration>>,
                          <<"width", v.width>>, <<"height", v.height>> >>),
                  S("video")>>
        ELSE IF ct = "document" /\ TruthyObj(message.document) THEN
            LET d == Val(message.document)
            IN  <<Some(d.file_id),
                  Some(<< <<"size", d.file_size>>, <<"mime", d.mime_type>>,
                          <<"name", d.file_name>> >>),
                  S("document")>>
        ELSE IF ct = "audio" /\ TruthyObj(message.audio) THEN
            LET a == Val(message.audio)
            IN  <<Some(a.file_id),
                  Some(<< <<"size", a.file_size>>, <<"mime", a.mime_type>>,
                          <<"name", a.file_name>>, <<"duration", a.duration>> >>),
                  S("audio")>>
        ELSE IF ct = "voice" /\ TruthyObj(message.voice) THEN
            LET v == Val(message.voice)
            IN  <<Some(v.file_id),
                  Some(<< <<"size", v.file_size>>, <<"mime", v.mime_type>>,
                          <<"duration", v.duration>> >>),
                  S("voice")>>
        ELSE IF ct = "video_note" /\ TruthyObj(message.video_note) THEN
            LET vn == Val(message.video_note)
            IN  <<Some(vn.file_id),
                  Some(<< <<"size", vn.file_size>>, <<"duration", vn.duration>>,
                          <<"length", vn.length>> >>),
                  S("video_note")>>
        ELSE IF ct = "sticker" /\ TruthyObj(message.sticker) THEN
            LET s == Val(message.sticker)
            IN  <<Some(s.file_id),
                  Some(<< <<"emoji", s.emoji>>, <<"set_name", s.set_name>>,
                          <<"width", s.width>>, <<"height", s.height>> >>),
                  S("sticker")>>
        ELSE IF ct = "animation" /\ TruthyObj(message.animation) THEN
            LET a == Val(message.animation)
            IN  <<Some(a.file_id),
                  Some(<< <<"size", a.file_size>>, <<"mime", a.mime_type>>,
                          <<"name", a.file_name>>, <<"duration", a.duration>>,
                          <<"width", a.width>>, <<"height", a.height>> >>),
                  S("animation")>>
        ELSE <<None, None, IF ct # "" THEN str_ct(ct) ELSE S("unknown")>>

\* The router's filters, first match in registration order; an update that
\* no filter accepts is dropped by the dispatcher.
\* A plausible slip: the catch-all is registered before the service filter.
RouteOtherBeforeService(message) ==
    IF message.upd = "message" THEN
        IF TruthySeq(message.text) /\ ~startswith(Val(message.text), "/") THEN "on_text"
        ELSE IF message.content_type \in MEDIA_CONTENT_TYPES THEN "on_media"
        ELSE "on_other"
    ELSE
        IF TruthySeq(message.text) THEN "on_edited_text"
        ELSE IF message.content_type \in MEDIA_CONTENT_TYPES THEN "on_edited_media"
        ELSE "unhandled"

Route(message) ==
    IF message.upd = "message" THEN
        IF TruthySeq(message.text) /\ ~startswith(Val(message.text), "/") THEN "on_text"
        ELSE IF message.content_type \in MEDIA_CONTENT_TYPES THEN "on_media"
        ELSE IF message.content_type \in SERVICE_CONTENT_TYPES THEN "on_service"
        ELSE "on_other"
    ELSE
        IF TruthySeq(message.text) THEN "on_edited_text"
        ELSE IF message.content_type \in MEDIA_CONTENT_TYPES THEN "on_edited_media"
        ELSE "unhandled"

\* ------------------------------------------------------------ the pipeline
Slots == 1..MaxInFlight
EventIds == 1..MaxEvents

VARIABLES
    download_media, \* config.download_media
    db,             \* the shared connection's view: committed rows plus its open transaction
    disk,           \* the rows made durable by the last commit
    pc,             \* per task: the await it is suspended at, or "idle"
    evOf,           \* per task: the inbound event it is handling
    idx,            \* per task: position in the new_chat_members loop
    nextEv,         \* number of the next inbound event
    updOf,          \* per event: which update of the catalogue it carries
    status,         \* per event: "new", "running", "ok", "failed", "propagated", "unhandled"
    pendingW,       \* per event: statements executed and not yet committed
    durableW,       \* per event: statements made durable
    pendingA,       \* per event: activity rows inserted and not yet committed
    durableA,       \* per event: activity rows made durable
    fetches,        \* per event: media fetches attempted
    lastChat,       \* the arguments of the most recent upsert_chat per key
    lastUser,       \* the arguments of the most recent upsert_user per key
    failures,       \* exceptions raised so far
    arg,            \* argument of the helper or storage call examined on its own
    res             \* its result

vars == <<download_media, db, disk, pc, evOf, idx, nextEv, updOf, status, pendingW,
          durableW, pendingA, durableA, fetches, lastChat, lastUser, failures, arg, res>>

Zero == [e \in EventIds |-> 0]

Init ==
    /\ download_media \in BOOLEAN
    /\ db = EmptyStore
    /\ disk = EmptyStore
    /\ pc = [s \in Slots |-> "idle"]
    /\ evOf = [s \in Slots |-> 0]
    /\ idx = [s \in Slots |-> 0]
    /\ nextEv = 1
    /\ updOf = Zero
    /\ status = [e \in EventIds |-> "new"]
    /\ pendingW = Zero
    /\ durableW = Zero
    /\ pendingA = Zero
    /\ durableA = Zero
    /\ fetches = Zero
    /\ lastChat = {}
    /\ lastUser = {}
    /\ failures = 0
    /\ arg = None
    /\ res = None

M(s) == Updates[updOf[evOf[s]]]
Handler(s) == Route(M(s))

\* Every handler begins with _save_chat_and_user.
EntryStepSkipRefs(h) ==
    IF h = "on_other" THEN "insert_message" ELSE "upsert_chat"

\* A plausible slip: on_text logs the message before _save_chat_and_user.
EntryStepInsertFirst(h) ==
    IF h = "on_text" THEN "insert_message" ELSE "upsert_chat"

EntryStep(h) == "upsert_chat"

\* A plausible slip: on_edited_media downloads like on_media.
AfterRefsEditedFetches(h, message, download) ==
    CASE h \in {"on_media", "on_edited_media"} ->
            IF download /\ TruthyStr(_extract_media_meta(message)[1])
            THEN "get_file" ELSE "insert_message"
      [] h = "on_service" ->
            IF TruthySeq(message.new_chat_members) THEN "member_upsert"
            ELSE IF TruthyObj(message.left_chat_member) THEN "left_insert"
            ELSE IF TruthyStr(message.new_chat_title) THEN "title_upsert"
            ELSE IF TruthyObj(message.pinned_message) THEN "pinned_insert"
            ELSE "commit"
      [] OTHER -> "insert_message"

\* A plausible slip: the pinned_message branch is missing.
AfterRefsNoPinned(h, message, download) ==
    CASE h = "on_media" ->
            IF download /\ TruthyStr(_extract_media_meta(message)[1])
            THEN "get_file" ELSE "insert_message"
      [] h = "on_service" ->
            IF TruthySeq(message.new_chat_members) THEN "member_upsert"
            ELSE IF TruthyObj(message.left_chat_member) THEN "left_insert"
            ELSE IF TruthyStr(message.new_chat_title) THEN "title_upsert"
            ELSE "commit"
      [] OTHER -> "insert_message"

\* A plausible slip: the title branch records the event without the upsert.
AfterRefsSkipTitleUpsert(h, message, download) ==
    CASE h = "on_media" ->
            IF download /\ TruthyStr(_extract_media_meta(message)[1])
            THEN "get_file" ELSE "insert_message"
      [] h = "on_service" ->
            IF TruthySeq(message.new_chat_members) THEN "member_upsert"
            ELSE IF TruthyObj(message.left_chat_member) THEN "left_insert"
            ELSE IF TruthyStr(message.new_chat_title) THEN "title_insert"
            ELSE IF TruthyObj(message.pinned_message) THEN "pinned_insert"
            ELSE "commit"
      [] OTHER -> "insert_message"

\* The await that follows _save_chat_and_user in each handler.
AfterRefs(h, message, download) ==
    CASE h = "on_media" ->
            IF download /\ TruthyStr(_extract_media_meta(message)[1])
            THEN "get_file" ELSE "insert_message"
      [] h = "on_service" ->
            IF TruthySeq(message.new_chat_members) THEN "member_upsert"
            ELSE IF TruthyObj(message.left_chat_member) THEN "left_insert"
            ELSE IF TruthyStr(message.new_chat_title) THEN "title_upsert"
            ELSE IF TruthyObj(message.pinned_message) THEN "pinned_insert"
            ELSE "commit"
      [] OTHER -> "insert_message"

\* The steps of each handler that its try block encloses.
AllSteps ==
    {"upsert_chat", "upsert_user", "get_file", "download_file", "insert_message",
     "member_upsert", "member_insert", "left_insert", "title_upsert", "title_insert",
     "pinned_insert", "commit"}

TryCoversCommitOutside(h) ==
    IF h = "on_service" THEN AllSteps \ {"commit"} ELSE AllSteps

TryCovers(h) == AllSteps

\* A plausible slip: no inner try, so a failed fetch ends the handler.
InnerTryCoversNone == {}

\* The inner try of on_media around the fetch.
InnerTryCovers == {"get_file", "download_file"}

\* A plausible slip: the connection in autocommit mode, where every
\* statement is durable at once.
ExecutedAutocommit(e, activity) ==
    /\ durableW' = [durableW EXCEPT ![e] = @ + 1]
    /\ durableA' = [durableA EXCEPT ![e] = @ + activity]
    /\ UNCHANGED <<pendingW, pendingA>>

Executed(e, activity) ==
    /\ pendingW' = [pendingW EXCEPT ![e] = @ + 1]
    /\ pendingA' = [pendingA EXCEPT ![e] = @ + activity]
    /\ UNCHANGED <<durableW, durableA>>

Goto(s, step) == pc' = [pc EXCEPT ![s] = step]

LowestIdle(s) == pc[s] = "idle" /\ \A t \in Slots : t < s => pc[t] # "idle"

\* The dispatcher starts a handler task for an inbound update.
Dispatch(s, i) ==
    /\ LowestIdle(s)
    /\ nextEv <= MaxEvents
    /\ Route(Updates[i]) # "unhandled"
    /\ updOf' = [updOf EXCEPT ![nextEv] = i]
    /\ status' = [status EXCEPT ![nextEv] = "running"]
    /\ evOf' = [evOf EXCEPT ![s] = nextEv]
    /\ Goto(s, EntryStep(Route(Updates[i])))
    /\ nextEv' = nextEv + 1
    /\ idx' = [idx EXCEPT ![s] = 1]
    /\ UNCHANGED <<arg, res, download_media, db, disk, pendingW, durableW, pendingA, durableA,
                   fetches, lastChat, lastUser, failures>>

\* An update that no filter of the router accepts starts no handler.
Drop(i) ==
    /\ nextEv <= MaxEvents
    /\ Route(Updates[i]) = "unhandled"
    /\ updOf' = [updOf EXCEPT ![nextEv] = i]
    /\ status' = [status EXCEPT ![nextEv] = "unhandled"]
    /\ nextEv' = nextEv + 1
    /\ UNCHANGED <<arg, res, download_media, db, disk, pc, evOf, idx, pendingW, durableW, pendingA,
                   durableA, fetches, lastChat, lastUser, failures>>

RecordChat(chat_id, title, chat_type) ==
    lastChat' = {r \in lastChat : r.chat_id # chat_id}
                   \cup {[chat_id |-> chat_id, title |-> title, type |-> chat_type]}

RecordUser(u) ==
    lastUser' = {r \in lastUser : r.user_id # u.id}
                   \cup {[user_id |-> u.id, username |-> u.username,
                          first_name |-> u.first_name, last_name |-> u.last_name]}

\* The handler returns: the task ends with the given outcome for its event.
Return(s, outcome) ==
    /\ pc' = [pc EXCEPT ![s] = "idle"]
    /\ status' = [status EXCEPT ![evOf[s]] = outcome]
    /\ evOf' = [evOf EXCEPT ![s] = 0]
    /\ idx' = [idx EXCEPT ![s] = 0]

\* _save_chat_and_user, first await: upsert_chat.
UpsertChat(s) ==
    /\ pc[s] = "upsert_chat"
    /\ LET m == M(s)
       IN  /\ db' = upsert_chat(db, m.chat.id, m.chat.title, m.chat.type)
           /\ RecordChat(m.chat.id, m.chat.title, m.chat.type)
           /\ Goto(s, IF TruthyObj(m.from_user) THEN "upsert_user"
                      ELSE AfterRefs(Handler(s), m, download_media))
    /\ Executed(evOf[s], 0)
    /\ UNCHANGED <<arg, res, download_media, disk, evOf, idx, nextEv, updOf, status, fetches,
                   lastUser, failures>>

\* _save_chat_and_user, second await: upsert_user of the sender.
UpsertUser(s) ==
    /\ pc[s] = "upsert_user"
    /\ LET m == M(s)
           u == Val(m.from_user)
       IN  /\ db' = upsert_user(db, u.id, u.username, u.first_name, u.last_name)
           /\ RecordUser(u)
           /\ Goto(s, AfterRefs(Handler(s), m, download_media))
    /\ Executed(evOf[s], 0)
    /\ UNCHANGED <<arg, res, download_media, disk, evOf, idx, nextEv, updOf, status, fetches,
                   lastChat, failures>>

\* on_media: await message.bot.get_file(file_id)
GetFile(s) ==
    /\ pc[s] = "get_file"
    /\ fetches' = [fetches EXCEPT ![evOf[s]] = @ + 1]
    /\ Goto(s, "download_file")
    /\ UNCHANGED <<arg, res, download_media, db, disk, evOf, idx, nextEv, updOf, status, pendingW,
                   durableW, pendingA, durableA, lastChat, lastUser, failures>>

\* on_media: await message.bot.download_file(file.file_path, dest)
DownloadFile(s) ==
    /\ pc[s] = "download_file"
    /\ Goto(s, "insert_message")
    /\ UNCHANGED <<arg, res, download_media, db, disk, evOf, idx, nextEv, updOf, status, pendingW,
                   durableW, pendingA, durableA, fetches, lastChat, lastUser, failures>>

\* A plausible slip: the catch-all keeps the message text when there is one.
LogArgsOtherKeepsText(h, message) ==
    LET mm == _extract_media_meta(message)
    IN  CASE h = "on_text" -> <<S("text"), message.text, None, None, FALSE>>
          [] h = "on_media" -> <<mm[3], message.caption, mm[1], mm[2], FALSE>>
          [] h = "on_edited_text" -> <<S("text"), message.text, None, None, TRUE>>
          [] h = "on_edited_media" -> <<mm[3], message.caption, mm[1], mm[2], TRUE>>
          [] h = "on_other" ->
                <<S("other"),
                  IF TruthySeq(message.text) THEN message.text
                  ELSE Some(str_ct(message.content_type)), None, None, FALSE>>

\* The arguments each handler passes to _log_message:
\* <<msg_type, text, media_file_id, media_meta, is_edit>>.
LogArgs(h, message) ==
    LET mm == _extract_media_meta(message)
    IN  CASE h = "on_text" -> <<S("text"), message.text, None, None, FALSE>>
          [] h = "on_media" -> <<mm[3], message.caption, mm[1], mm[2], FALSE>>
          [] h = "on_edited_text" -> <<S("text"), message.text, None, None, TRUE>>
          [] h = "on_edited_media" -> <<mm[3], message.caption, mm[1], mm[2], TRUE>>
          [] h = "on_other" ->
                <<S("other"), Some(str_ct(message.content_type)), None, None, FALSE>>

\* _log_message up to its first await: insert_message.
_log_message(store, message, msg_type, text, media_file_id, media_meta, is_edit) ==
    LET fwd == _extract_forward_info(message)
        user_id == IF TruthyObj(message.from_user) THEN Some(Val(message.from_user).id)
                   ELSE None
    IN  insert_message(store, message.message_id, message.chat.id, user_id,
                       isoformat(message.date), msg_type, text, media_file_id, media_meta,
                       IF TruthyObj(message.reply_to_message)
                       THEN Some(Val(message.reply_to_message).message_id) ELSE None,
                       fwd[1], fwd[2], is_edit)

InsertMessage(s) ==
    /\ pc[s] = "insert_message"
    /\ LET a == LogArgs(Handler(s), M(s))
       IN  db' = _log_message(db, M(s), a[1], a[2], a[3], a[4], a[5])
    /\ Goto(s, "commit")
    /\ Executed(evOf[s], 1)
    /\ UNCHANGED <<arg, res, download_media, disk, evOf, idx, nextEv, updOf, status, fetches,
                   lastChat, lastUser, failures>>

\* A plausible slip: the blob leaves out the first name.
MemberDataUsernameOnly(member) ==
    Some(<< <<"username", member.username>> >>)

MemberData(member) ==
    Some(<< <<"username", member.username>>, <<"first_name", member.first_name>> >>)

\* on_service, new_chat_members loop: upsert_user(member)
MemberUpsert(s) ==
    /\ pc[s] = "member_upsert"
    /\ LET member == Val(M(s).new_chat_members)[idx[s]]
       IN  /\ db' = upsert_user(db, member.id, member.username, member.first_name,
                                member.last_name)
           /\ RecordUser(member)
    /\ Goto(s, "member_insert")
    /\ Executed(evOf[s], 0)
    /\ UNCHANGED <<arg, res, download_media, disk, evOf, idx, nextEv, updOf, status, fetches,
                   lastChat, failures>>

\* on_service, new_chat_members loop: insert_event(member_joined)
MemberInsert(s) ==
    /\ pc[s] = "member_insert"
    /\ LET m == M(s)
           member == Val(m.new_chat_members)[idx[s]]
       IN  /\ db' = insert_event(db, m.chat.id, "member_joined", isoformat(m.date),
                                 Some(member.id), MemberData(member))
           /\ Goto(s, IF idx[s] < Len(Val(m.new_chat_members)) THEN "member_upsert"
                      ELSE "commit")
    /\ idx' = [idx EXCEPT ![s] = @ + 1]
    /\ Executed(evOf[s], 1)
    /\ UNCHANGED <<arg, res, download_media, disk, evOf, nextEv, updOf, status, fetches, lastChat,
                   lastUser, failures>>

\* on_service, left_chat_member branch
LeftInsert(s) ==
    /\ pc[s] = "left_insert"
    /\ LET m == M(s)
           member == Val(m.left_chat_member)
       IN  db' = insert_event(db, m.chat.id, "member_left", isoformat(m.date),
                              Some(member.id), MemberData(member))
    /\ Goto(s, "commit")
    /\ Executed(evOf[s], 1)
    /\ UNCHANGED <<arg, res, download_media, disk, evOf, idx, nextEv, updOf, status, fetches,
                   lastChat, lastUser, failures>>

\* A plausible slip: a missing sender is recorded as user 0.
SenderIdZero(m) == IF TruthyObj(m.from_user) THEN Some(Val(m.from_user).id) ELSE Some(0)

SenderId(m) == IF TruthyObj(m.from_user) THEN Some(Val(m.from_user).id) ELSE None

\* on_service, new_chat_title branch: upsert_chat with the new title
TitleUpsert(s) ==
    /\ pc[s] = "title_upsert"
    /\ LET m == M(s)
       IN  /\ db' = upsert_chat(db, m.chat.id, m.new_chat_title, m.chat.type)
           /\ RecordChat(m.chat.id, m.new_chat_title, m.chat.type)
    /\ Goto(s, "title_insert")
    /\ Executed(evOf[s], 0)
    /\ UNCHANGED <<arg, res, download_media, disk, evOf, idx, nextEv, updOf, status, fetches,
                   lastUser, failures>>

\* on_service, new_chat_title branch: insert_event(title_changed)
TitleInsert(s) ==
    /\ pc[s] = "title_insert"
    /\ LET m == M(s)
       IN  db' = insert_event(db, m.chat.id, "title_changed", isoformat(m.date),
                              SenderId(m), Some(<< <<"new_title", m.new_chat_title>> >>))
    /\ Goto(s, "commit")
    /\ Executed(evOf[s], 1)
    /\ UNCHANGED <<arg, res, download_media, disk, evOf, idx, nextEv, updOf, status, fetches,
                   lastChat, lastUser, failures>>

\* on_service, pinned_message branch
PinnedInsert(s) ==
    /\ pc[s] = "pinned_insert"
    /\ LET m == M(s)
       IN  db' = insert_event(db, m.chat.id, "message_pinned", isoformat(m.date),
                              SenderId(m),
                              Some(<< <<"pinned_message_id",
                                        Some(Val(m.pinned_message).message_id)>> >>))
    /\ Goto(s, "commit")
    /\ Executed(evOf[s], 1)
    /\ UNCHANGED <<arg, res, download_media, disk, evOf, idx, nextEv, updOf, status, fetches,
                   lastChat, lastUser, failures>>

\* db.commit(): everything the shared connection has executed becomes
\* durable, whichever task executed it; then the handler returns.
Commit(s) ==
    /\ pc[s] = "commit"
    /\ disk' = db
    /\ durableW' = [e \in EventIds |-> durableW[e] + pendingW[e]]
    /\ durableA' = [e \in EventIds |-> durableA[e] + pendingA[e]]
    /\ pendingW' = Zero
    /\ pendingA' = Zero
    /\ Return(s, "ok")
    /\ UNCHANGED <<arg, res, download_media, db, nextEv, updOf, fetches, lastChat, lastUser, failures>>

\* The awaited operation raises. A failed statement or commit changes
\* nothing in the store and leaves the connection's transaction open; no
\* handler rolls back.
Raise(s) ==
    /\ pc[s] # "idle"
    /\ failures < MaxFailures
    /\ failures' = failures + 1
    /\ IF pc[s] \in InnerTryCovers
       THEN /\ Goto(s, "insert_message")
            /\ fetches' = [fetches EXCEPT ![evOf[s]] =
                            IF pc[s] = "get_file" THEN @ + 1 ELSE @]
            /\ UNCHANGED <<status, evOf, idx>>
       ELSE /\ Return(s, IF pc[s] \in TryCovers(Handler(s)) THEN "failed" ELSE "propagated")
            /\ UNCHANGED fetches
    /\ UNCHANGED <<arg, res, download_media, db, disk, nextEv, updOf, pendingW, durableW, pendingA,
                   durableA, lastChat, lastUser>>

Next ==
    \/ \E s \in Slots, i \in UpdateIds : Dispatch(s, i)
    \/ \E i \in UpdateIds : Drop(i)
    \/ \E s \in Slots :
        \/ UpsertChat(s)
        \/ UpsertUser(s)
        \/ GetFile(s)
        \/ DownloadFile(s)
        \/ InsertMessage(s)
        \/ MemberUpsert(s)
        \/ MemberInsert(s)
        \/ LeftInsert(s)
        \/ TitleUpsert(s)
        \/ TitleInsert(s)
        \/ PinnedInsert(s)
        \/ Commit(s)
        \/ Raise(s)

Spec == Init /\ [][Next]_vars

HandlerStep(s) ==
    \/ UpsertChat(s)
    \/ UpsertUser(s)
    \/ GetFile(s)
    \/ DownloadFile(s)
    \/ InsertMessage(s)
    \/ MemberUpsert(s)
    \/ MemberInsert(s)
    \/ LeftInsert(s)
    \/ TitleUpsert(s)
    \/ TitleInsert(s)
    \/ PinnedInsert(s)
    \/ Commit(s)

\* The transport delivers sequentially: an update is dispatched only when
\* the handler of the one before has returned.
SeqDispatch(s, i) ==
    /\ \A t \in Slots : pc[t] = "idle"
    /\ Dispatch(s, i)

SeqNext ==
    \/ \E s \in Slots, i \in UpdateIds : SeqDispatch(s, i)
    \/ \E i \in UpdateIds : Drop(i)
    \/ \E s \in Slots : HandlerStep(s)
    \/ \E s \in Slots : Raise(s)

SeqSpec == Init /\ [][SeqNext]_vars

\* Concurrent handlers whose awaited operations all succeed.
ConcNext ==
    \/ \E s \in Slots, i \in UpdateIds : Dispatch(s, i)
    \/ \E s \in Slots : HandlerStep(s)

ConcSpec == Init /\ [][ConcNext]_vars

\* Sequential delivery of the updates and of their channel-post forms, the
\* awaited operations all succeeding.
AnonNext ==
    \/ \E s \in Slots, i \in AnonIds : SeqDispatch(s, i)
    \/ \E i \in AnonIds : Drop(i)
    \/ \E s \in Slots : HandlerStep(s)

AnonSpec == Init /\ [][AnonNext]_vars

\* --------------------------------------------------- the storage layer
\* The dict arguments a caller can pass: no dict, the empty dict, and the
\* dicts over an int-valued and a string-valued key, each value possibly
\* None.
Widths == {None, Some(640)}
FileNames == {None, Some("a.pdf")}
Dicts ==
    {None, Some(<<>>)}
      \cup {Some(<< <<"width", w>> >>) : w \in Widths}
      \cup {Some(<< <<"name", f>> >>) : f \in FileNames}
      \cup {Some(<< <<"width", w>>, <<"name", f>> >>) : w \in Widths, f \in FileNames}

Rows == Len(db.messages) + Len(db.events)

\* A direct call of db.insert_message with a given media_meta.
CallInsertMessage(media_meta) ==
    /\ Rows < MaxEvents
    /\ db' = insert_message(db, 1, -1001, Some(100), isoformat(1), S("photo"), None,
                            Some("ph_l"), media_meta, None, None, None, FALSE)
    /\ arg' = <<"insert_message", media_meta>>
    /\ UNCHANGED <<res, download_media, disk, pc, evOf, idx, nextEv, updOf, status, pendingW,
                   durableW, pendingA, durableA, fetches, lastChat, lastUser, failures>>

\* A direct call of db.insert_event with a given data.
CallInsertEvent(data) ==
    /\ Rows < MaxEvents
    /\ db' = insert_event(db, -1001, "member_joined", isoformat(1), Some(100), data)
    /\ arg' = <<"insert_event", data>>
    /\ UNCHANGED <<res, download_media, disk, pc, evOf, idx, nextEv, updOf, status, pendingW,
                   durableW, pendingA, durableA, fetches, lastChat, lastUser, failures>>

\* A direct call of db.commit.
CallCommit ==
    /\ disk # db
    /\ disk' = db
    /\ UNCHANGED <<arg, res, download_media, db, pc, evOf, idx, nextEv, updOf, status, pendingW,
                   durableW, pendingA, durableA, fetches, lastChat, lastUser, failures>>

DbNext ==
    \/ \E media_meta \in Dicts : CallInsertMessage(media_meta)
    \/ \E data \in Dicts : CallInsertEvent(data)
    \/ CallCommit

DbSpec == Init /\ [][DbNext]_vars

TypeOK ==
    /\ pc \in [Slots -> AllSteps \cup {"idle"}]
    /\ nextEv \in 1..(MaxEvents + 1)
    /\ failures \in 0..MaxFailures

\* --------------------------------------- the extraction functions
\* The origins of a forwarded message: one of each MessageOrigin class,
\* the user origin with and without a last name. Telegram sends the title
\* of every group, supergroup and channel.
OriginUser == [kind |-> "user", sender_user |-> Ann]
OriginUserNoLast == [kind |-> "user", sender_user |-> Bob]
OriginHidden == [kind |-> "hidden_user", sender_user_name |-> "Hidden Person"]
OriginChat == [kind |-> "chat", sender_chat |-> Chat(-5001, Some("Some Chat"), Some("supergroup"))]
OriginChannel == [kind |-> "channel", chat |-> Chat(-55, Some("News"), Some("channel"))]
Origins ==
    {None, Some(OriginUser), Some(OriginUserNoLast), Some(OriginHidden), Some(OriginChat),
     Some(OriginChannel)}

\* The media sub-objects of a message: with every optional field of the
\* Bot API present (full) or absent.
Opt(present, v) == IF present THEN Some(v) ELSE None
VideoObj(full) ==
    [file_id |-> "vid1", file_size |-> Opt(full, 5000), mime_type |-> Opt(full, "video/mp4"),
     file_name |-> Opt(full, "v.mp4"), duration |-> Some(12), width |-> Some(640),
     height |-> Some(480)]
DocumentObj(full) ==
    [file_id |-> "doc1", file_size |-> Opt(full, 100000),
     mime_type |-> Opt(full, "application/pdf"), file_name |-> Opt(full, "report.pdf")]
AudioObj(full) ==
    [file_id |-> "aud1", file_size |-> Opt(full, 3000), mime_type |-> Opt(full, "audio/mpeg"),
     file_name |-> Opt(full, "a.mp3"), duration |-> Some(180)]
VoiceObj(full) ==
    [file_id |-> "voi1", file_size |-> Opt(full, 900), mime_type |-> Opt(full, "audio/ogg"),
     duration |-> Some(4)]
VideoNoteObj(full) ==
    [file_id |-> "vn1", file_size |-> Opt(full, 700), duration |-> Some(12),
     length |-> Some(240)]
StickerObj(full) ==
    [file_id |-> "st1", emoji |-> Opt(full, "smile"), set_name |-> Opt(full, "HappyPack"),
     width |-> Some(512), height |-> Some(512)]
AnimationObj(full) ==
    [file_id |-> "ani1", file_size |-> Opt(full, 2000), mime_type |-> Opt(full, "video/mp4"),
     file_name |-> Opt(full, "g.mp4"), duration |-> Some(3), width |-> Some(320),
     height |-> Some(240)]

\* message.photo: the available sizes, in either order, or no size.
PhotoLists ==
    {<<>>, <<PhotoSmall>>, <<PhotoLarge>>, <<PhotoSmall, PhotoLarge>>, <<PhotoLarge, PhotoSmall>>}

MediaCases ==
    {[BaseMsg EXCEPT !.content_type = "photo", !.photo = Some(l)] : l \in PhotoLists}
      \cup {[BaseMsg EXCEPT !.content_type = "video", !.video = Some(VideoObj(f))] : f \in BOOLEAN}
      \cup {[BaseMsg EXCEPT !.content_type = "document", !.document = Some(DocumentObj(f))] : f \in BOOLEAN}
      \cup {[BaseMsg EXCEPT !.content_type = "audio", !.audio = Some(AudioObj(f))] : f \in BOOLEAN}
      \cup {[BaseMsg EXCEPT !.content_type = "voice", !.voice = Some(VoiceObj(f))] : f \in BOOLEAN}
      \cup {[BaseMsg EXCEPT !.content_type = "video_note", !.video_note = Some(VideoNoteObj(f))] : f \in BOOLEAN}
      \cup {[BaseMsg EXCEPT !.content_type = "sticker", !.sticker = Some(StickerObj(f))] : f \in BOOLEAN}
      \cup {[BaseMsg EXCEPT !.content_type = "animation", !.animation = Some(AnimationObj(f))] : f \in BOOLEAN}
      \cup {[BaseMsg EXCEPT !.content_type = "video"],
            [BaseMsg EXCEPT !.content_type = "location"],
            [BaseMsg EXCEPT !.text = Some(<<"h", "i">>)]}

ExtractInputs == {[m EXCEPT !.forward_origin = o] : m \in MediaCases, o \in Origins}

ExtractInit ==
    /\ arg \in ExtractInputs
    /\ res = None
    /\ download_media = FALSE
    /\ db = EmptyStore
    /\ disk = EmptyStore
    /\ pc = [s \in Slots |-> "idle"]
    /\ evOf = [s \in Slots |-> 0]
    /\ idx = [s \in Slots |-> 0]
    /\ nextEv = 1
    /\ updOf = Zero
    /\ status = [e \in EventIds |-> "new"]
    /\ pendingW = Zero
    /\ durableW = Zero
    /\ pendingA = Zero
    /\ durableA = Zero
    /\ fetches = Zero
    /\ lastChat = {}
    /\ lastUser = {}
    /\ failures = 0

\* fwd_from, fwd_name = _extract_forward_info(message)
ExtractForwardInfo ==
    /\ IsNone(res)
    /\ res' = <<"forward">> \o _extract_forward_info(arg)
    /\ UNCHANGED <<arg, download_media, db, disk, pc, evOf, idx, nextEv, updOf, status,
                   pendingW, durableW, pendingA, durableA, fetches, lastChat, lastUser,
                   failures>>

\* file_id, media_meta, msg_type = _extract_media_meta(message)
ExtractMediaMeta ==
    /\ IsNone(res)
    /\ res' = <<"media">> \o _extract_media_meta(arg)
    /\ UNCHANGED <<arg, download_media, db, disk, pc, evOf, idx, nextEv, updOf, status,
                   pendingW, durableW, pendingA, durableA, fetches, lastChat, lastUser,
                   failures>>

ExtractNext == ExtractForwardInfo \/ ExtractMediaMeta

ExtractSpec == ExtractInit /\ [][ExtractNext]_vars

\* ------------------------------------------------ _sanitize_filename
\* A file name is the sequence of its characters. The alphabet has one
\* character of each class the function tells apart: an ASCII letter, a
\* non-ASCII letter, the dot, the hyphen, the path separator and a
\* character of no other class.
Alphabet == {"a", "é", ".", "-", "/", "$"}
Filenames == UNION {[1..n -> Alphabet] : n \in 0..MaxLen}

\* A plausible slip: the other half of os.path.split.
dirname(p) ==
    LET slashes == {i \in 1..Len(p) : p[i] = "/"}
        last == IF slashes = {} THEN 0 ELSE CHOOSE i \in slashes : \A j \in slashes : j <= i
    IN  SubSeq(p, 1, last - 1)

\* os.path.basename (POSIX): what follows the last "/".
basename(p) ==
    LET slashes == {i \in 1..Len(p) : p[i] = "/"}
        last == IF slashes = {} THEN 0 ELSE CHOOSE i \in slashes : \A j \in slashes : j <= i
    IN  SubSeq(p, last + 1, Len(p))

\* \w on a str pattern: letters of any script, digits and the underscore.
WordChars == {"a", "é", "_"}

\* re.sub(r'[^\w\-.]', '_', name)
re_sub(name) ==
    [i \in 1..Len(name) |-> IF name[i] \in WordChars \cup {"-", "."} THEN name[i] ELSE "_"]

_sanitize_filename(name) == re_sub(basename(name))

\* sub in text
Contains(text, sub) ==
    \E i \in 0..(Len(text) - Len(sub)) : SubSeq(text, i + 1, i + Len(sub)) = sub

SanitizeInit ==
    /\ arg \in Filenames
    /\ res = None
    /\ download_media = FALSE
    /\ db = EmptyStore
    /\ disk = EmptyStore
    /\ pc = [s \in Slots |-> "idle"]
    /\ evOf = [s \in Slots |-> 0]
    /\ idx = [s \in Slots |-> 0]
    /\ nextEv = 1
    /\ updOf = Zero
    /\ status = [e \in EventIds |-> "new"]
    /\ pendingW = Zero
    /\ durableW = Zero
    /\ pendingA = Zero
    /\ durableA = Zero
    /\ fetches = Zero
    /\ lastChat = {}
    /\ lastUser = {}
    /\ failures = 0

\* safe_name = _sanitize_filename(file.file_path.split("/")[-1]), and any
\* other call of the function.
Sanitize ==
    /\ IsNone(res)
    /\ res' = Some(_sanitize_filename(arg))
    /\ UNCHANGED <<arg, download_media, db, disk, pc, evOf, idx, nextEv, updOf, status,
                   pendingW, durableW, pendingA, durableA, fetches, lastChat, lastUser,
                   failures>>

\* The function applied to its own output.
SanitizeAgain ==
    /\ ~IsNone(res)
    /\ arg # Val(res)
    /\ arg' = Val(res)
    /\ res' = Some(_sanitize_filename(Val(res)))
    /\ UNCHANGED <<download_media, db, disk, pc, evOf, idx, nextEv, updOf, status,
                   pendingW, durableW, pendingA, durableA, fetches, lastChat, lastUser,
                   failures>>

SanitizeNext == Sanitize \/ SanitizeAgain

SanitizeSpec == SanitizeInit /\ [][SanitizeNext]_vars

\* ------------------------------------------- on_media: the local path
\* str(int): the decimal digits, after a "-" for a negative number.
Digit(d) == <<"0", "1", "2", "3", "4", "5", "6", "7", "8", "9">>[d + 1]
RECURSIVE digits(_)
digits(n) == IF n < 10 THEN <<Digit(n)>> ELSE digits(n \div 10) \o <<Digit(n % 10)>>
str_int(n) == IF n < 0 THEN <<"-">> \o digits(-n) ELSE digits(n)

\* file.file_path.split('/')[-1]: what follows the last "/".
split_last(p) ==
    LET slashes == {i \in 1..Len(p) : p[i] = "/"}
        last == IF slashes = {} THEN 0 ELSE CHOOSE i \in slashes : \A j \in slashes : j <= i
    IN  SubSeq(p, last + 1, Len(p))

\* os.path.join(a, b) (POSIX): an absolute b replaces a.
path_join(a, b) ==
    IF Len(b) > 0 /\ b[1] = "/" THEN b
    ELSE IF Len(a) = 0 \/ a[Len(a)] = "/" THEN a \o b
    ELSE a \o <<"/">> \o b

\* config.media_dir: data_dir / "media", with the default DATA_DIR.
media_dir == <<"d", "a", "t", "a", "/", "m", "e", "d", "i", "a">>

\* A plausible slip: the local name is the sanitized name alone.
DestPathNoPrefix(dir, chat_id, message_id, file_path) ==
    path_join(dir, _sanitize_filename(split_last(file_path)))

\* dest = os.path.join(media_dir, f"{chat.id}_{message_id}_{safe_name}")
DestPath(dir, chat_id, message_id, file_path) ==
    LET safe_name == _sanitize_filename(split_last(file_path))
    IN  path_join(dir, str_int(chat_id) \o <<"_">> \o str_int(message_id) \o <<"_">> \o safe_name)

ChatIds == {-1001, 7}
MessageIds == {1, 20}

\* on_media builds the destination for the file_path that get_file returned.
BuildDest(chat_id, message_id) ==
    /\ IsNone(res)
    /\ res' = Some(DestPath(media_dir, chat_id, message_id, arg))
    /\ UNCHANGED <<arg, download_media, db, disk, pc, evOf, idx, nextEv, updOf, status,
                   pendingW, durableW, pendingA, durableA, fetches, lastChat, lastUser,
                   failures>>

DestNext == \E chat_id \in ChatIds, message_id \in MessageIds : BuildDest(chat_id, message_id)

DestSpec == SanitizeInit /\ [][DestNext]_vars

\* ------------------------------------------------------------- properties
Stores == {db, disk}

IsPrefix(a, b) == Len(a) <= Len(b) /\ \A i \in 1..Len(a) : b[i] = a[i]

RowsFor(store, msg_id, chat_id) ==
    {i \in 1..Len(store.messages) :
        store.messages[i].msg_id = msg_id /\ store.messages[i].chat_id = chat_id}

\* C1: under interleaved handlers on the shared connection, no commit
\* issued for one event makes durable any write of another event that is
\* still in flight: while an event is being processed, none of its
\* statements is durable.
C1_NoPartialDurable ==
    \A e \in EventIds : status[e] = "running" => durableW[e] = 0

\* C2: when processing of an event fails after some of its writes and
\* before its commit, no later commit ever makes a write of that event
\* durable.
C2_FailedNeverDurable ==
    \A e \in EventIds : status[e] = "failed" => durableW[e] = 0

\* C3: an exception raised by any step of any handler is caught inside the
\* handler: no event ends with its exception propagated out of the handler,
\* and the task slot is free again for the next inbound event.
C3_NoPropagation ==
    \A e \in EventIds :
        /\ status[e] # "propagated"
        /\ status[e] = "failed" => \A s \in Slots : evOf[s] # e

C3_Witness ==
    \E e1, e2 \in EventIds :
        e1 < e2 /\ status[e1] = "failed" /\ status[e2] = "ok" /\ durableA[e2] >= 1

\* C4: in the connection's view and in the durable store alike, every
\* Message row and every Event row names a chat_id that has a Chat row (so
\* the Chat row is written in the same or an earlier commit).
C4_ChatExists ==
    \A st \in Stores :
        /\ \A i \in 1..Len(st.messages) :
              \E c \in st.chats : c.chat_id = st.messages[i].chat_id
        /\ \A i \in 1..Len(st.events) :
              \E c \in st.chats : c.chat_id = st.events[i].chat_id

C4_Witness ==
    /\ \E i \in 1..Len(disk.messages) : disk.messages[i].type = S("other")
    /\ Len(disk.events) >= 1

\* C5: in the connection's view and in the durable store alike, every
\* Message row and every Event row whose user_id is non-null has a User
\* row with that user_id.
C5_UserExists ==
    \A st \in Stores :
        /\ \A i \in 1..Len(st.messages) :
              ~IsNone(st.messages[i].user_id) =>
                  \E u \in st.users : u.user_id = Val(st.messages[i].user_id)
        /\ \A i \in 1..Len(st.events) :
              ~IsNone(st.events[i].user_id) =>
                  \E u \in st.users : u.user_id = Val(st.events[i].user_id)

\* C6: Message and Event rows are append-only and immutable: every step
\* keeps each existing row of both activity tables in place with identical
\* fields, in the connection's view and in the durable store, so the row
\* counts never decrease.
C6_AppendOnly ==
    [][/\ IsPrefix(db.messages, db'.messages)
       /\ IsPrefix(db.events, db'.events)
       /\ IsPrefix(disk.messages, disk'.messages)
       /\ IsPrefix(disk.events, disk'.events)]_vars

C6_Witness ==
    \E i, j \in 1..Len(disk.events) :
        /\ i < j
        /\ disk.events[i].chat_id = disk.events[j].chat_id
        /\ disk.events[i].type = disk.events[j].type

\* C7: inserting a message with is_edit set for a (msg_id, chat_id) pair
\* that already has a row appends one row with is_edit = 1 for that pair
\* and leaves every existing row unchanged, so an original followed by one
\* edit gives exactly two rows for the pair.
C7_EditAppends ==
    [][\A s \in Slots :
          (/\ InsertMessage(s)
           /\ LogArgs(Handler(s), M(s))[5]
           /\ RowsFor(db, M(s).message_id, M(s).chat.id) # {})
          => LET n == Len(db.messages)
                 m == M(s)
             IN  /\ Len(db'.messages) = n + 1
                 /\ db'.messages[n + 1].is_edit = 1
                 /\ db'.messages[n + 1].msg_id = m.message_id
                 /\ db'.messages[n + 1].chat_id = m.chat.id
                 /\ \A i \in 1..n : db'.messages[i] = db.messages[i]
                 /\ Cardinality(RowsFor(db', m.message_id, m.chat.id))
                      = Cardinality(RowsFor(db, m.message_id, m.chat.id)) + 1]_vars

C7_Witness ==
    /\ Len(disk.messages) = 2
    /\ disk.messages[1].is_edit = 0
    /\ disk.messages[2].is_edit = 1
    /\ RowsFor(disk, disk.messages[1].msg_id, disk.messages[1].chat_id) = {1, 2}

\* C8: each reference table holds exactly one row per key ever upserted,
\* and that row carries the arguments of the most recent upsert for the
\* key, a null argument included.
C8_LastWriteWins ==
    /\ db.chats = lastChat
    /\ db.users = lastUser
    /\ \A r \in db.chats : Cardinality({q \in db.chats : q.chat_id = r.chat_id}) = 1
    /\ \A r \in db.users : Cardinality({q \in db.users : q.user_id = r.user_id}) = 1

C8_Witness ==
    /\ \E old \in disk.chats, new \in db.chats :
          old.chat_id = new.chat_id /\ ~IsNone(old.title) /\ IsNone(new.title)
    /\ \E old \in disk.users, new \in db.users :
          old.user_id = new.user_id /\ ~IsNone(old.username) /\ IsNone(new.username)

\* C9: while another handler is in flight, an upsert is atomic per key:
\* right after it the table holds exactly one row for the key and that row
\* is the upsert's own arguments, all of them.
C9_AtomicUpsert ==
    [][\A s \in Slots :
          (\E t \in Slots : t # s /\ pc[t] # "idle") =>
             /\ UpsertChat(s) =>
                  {r \in db'.chats : r.chat_id = M(s).chat.id}
                    = {[chat_id |-> M(s).chat.id, title |-> M(s).chat.title,
                        type |-> M(s).chat.type]}
             /\ TitleUpsert(s) =>
                  {r \in db'.chats : r.chat_id = M(s).chat.id}
                    = {[chat_id |-> M(s).chat.id, title |-> M(s).new_chat_title,
                        type |-> M(s).chat.type]}
             /\ UpsertUser(s) =>
                  LET u == Val(M(s).from_user)
                  IN  {r \in db'.users : r.user_id = u.id}
                        = {[user_id |-> u.id, username |-> u.username,
                            first_name |-> u.first_name, last_name |-> u.last_name]}
             /\ MemberUpsert(s) =>
                  LET u == Val(M(s).new_chat_members)[idx[s]]
                  IN  {r \in db'.users : r.user_id = u.id}
                        = {[user_id |-> u.id, username |-> u.username,
                            first_name |-> u.first_name, last_name |-> u.last_name]}]_vars

C9_Witness ==
    \E s, t \in Slots :
        /\ s # t
        /\ pc[s] \notin {"idle", "upsert_chat"}
        /\ pc[t] \notin {"idle", "upsert_chat"}
        /\ M(s).chat.id = M(t).chat.id
        /\ M(s).chat.title # M(t).chat.title
        /\ M(s).chat.type # M(t).chat.type
        /\ evOf[s] < evOf[t]
        /\ \E r \in db.chats : r.chat_id = M(s).chat.id /\ r.type = M(t).chat.type

\* C10: every observed inbound event, new or edited and of any content
\* kind, whose processing met no storage failure has at least one
\* committed Message or Event row.
C10_EveryEventLeavesTrace ==
    \A e \in EventIds : status[e] \in {"ok", "unhandled"} => durableA[e] >= 1

\* C11: a new message that none of the text, media and service filters
\* accepts, a text beginning with "/" included, is persisted by the
\* catch-all as exactly one Message row (and no Event row) whose type is
\* "other" and whose text is the stringified content-kind label, not the
\* message's own text.
C11_CatchAllRow ==
    [][\A s \in Slots :
          (InsertMessage(s) /\ Handler(s) = "on_other") =>
             LET n == Len(db.messages)
                 m == M(s)
                 row == db'.messages[n + 1]
             IN  /\ Len(db'.messages) = n + 1
                 /\ db'.events = db.events
                 /\ row.type = S("other")
                 /\ row.text = Some(str_ct(m.content_type))
                 /\ TruthySeq(m.text) => row.text # m.text
                 /\ row.msg_id = m.message_id
                 /\ pendingA[evOf[s]] = 0
                 /\ pendingA'[evOf[s]] = 1
                 /\ pc'[s] = "commit"]_vars

C11_Witness ==
    /\ \E i \in 1..Len(disk.messages) :
          /\ disk.messages[i].type = S("other")
          /\ disk.messages[i].text = Some(str_ct("text"))
    /\ \E i \in 1..Len(disk.messages) :
          /\ disk.messages[i].type = S("other")
          /\ disk.messages[i].text = Some(str_ct("location"))
    /\ \A e \in EventIds : status[e] = "ok" /\ durableA[e] = 1

\* C12: with the download flag on, a failure of the media fetch (get_file,
\* or the directory creation and download after it) does not end the
\* handler: it goes on to insert the Message row, and that row has the
\* media_file_id, metadata, type and caption that the message alone
\* determines, whatever the fetch did; the row is then committed.
C12_FetchFailureKeepsRow ==
    [][\A s \in Slots :
          /\ (pc[s] \in {"get_file", "download_file"} /\ Raise(s)) =>
                /\ pc'[s] = "insert_message"
                /\ status'[evOf[s]] = "running"
                /\ db' = db
          /\ (InsertMessage(s) /\ Handler(s) = "on_media") =>
                LET m == M(s)
                    mm == _extract_media_meta(m)
                    row == db'.messages[Len(db.messages) + 1]
                IN  /\ Len(db'.messages) = Len(db.messages) + 1
                    /\ row.media_file_id = mm[1]
                    /\ row.media_meta = Some(json_dumps(strip_none(Val(mm[2]))))
                    /\ row.type = mm[3]
                    /\ row.text = m.caption
                    /\ pc'[s] = "commit"
          /\ (Commit(s) /\ Handler(s) = "on_media") =>
                /\ pendingA[evOf[s]] = 1
                /\ durableA'[evOf[s]] = 1
                /\ disk'.messages = db.messages]_vars

C12_Witness ==
    /\ download_media
    /\ failures = 1
    /\ \A e \in EventIds : status[e] \in {"ok", "new"}
    /\ \E e \in EventIds :
          /\ status[e] = "ok"
          /\ Route(Catalogue[updOf[e]]) = "on_media"
          /\ fetches[e] = 1
          /\ durableA[e] = 1
    /\ \E i \in 1..Len(disk.messages) : disk.messages[i].media_file_id = Some("ph_l")

\* C13: with events processed one at a time, a stop of the process at any
\* step before the commit leaves the durable store as the last completed
\* commit left it: only a commit changes the durable store, a commit keeps
\* every activity row committed before, and no statement of the event in
\* flight is durable.
C13_CrashKeepsLastCommit ==
    /\ [](\A e \in EventIds : status[e] = "running" => durableW[e] = 0)
    /\ [][/\ disk' # disk => \E s \in Slots : Commit(s)
          /\ \A s \in Slots : Commit(s) =>
                /\ disk' = db
                /\ IsPrefix(disk.messages, disk'.messages)
                /\ IsPrefix(disk.events, disk'.events)]_vars

C13_Witness ==
    \E e \in EventIds :
        /\ status[e] = "running"
        /\ pendingW[e] >= 2
        /\ durableW[e] = 0
        /\ Len(disk.messages) >= 1
        /\ db # disk

\* The JSON member that a key with an optional value serializes to.
Member(k, o) == <<k, IF IsNone(o) THEN JNull ELSE JVal(Val(o))>>

\* The rows an event has appended to the events table and not yet
\* committed, when no other handler is in flight.
OwnEvents(s) == SubSeq(db.events, Len(db.events) - pendingA[evOf[s]] + 1, Len(db.events))

\* C14: a membership event with N >= 1 new members appends exactly N Event
\* rows of type "member_joined", the k-th for the k-th member, with that
\* member's user_id and a data blob holding that member's username and
\* first name; each member has its User row before its Event row is
\* inserted.
C14_MemberFanOut ==
    [][\A s \in Slots :
          /\ MemberInsert(s) =>
                LET member == Val(M(s).new_chat_members)[idx[s]]
                    row == db'.events[Len(db.events) + 1]
                IN  /\ Len(db'.events) = Len(db.events) + 1
                    /\ pendingA[evOf[s]] = idx[s] - 1
                    /\ [user_id |-> member.id, username |-> member.username,
                        first_name |-> member.first_name,
                        last_name |-> member.last_name] \in db.users
                    /\ row.type = "member_joined"
                    /\ row.user_id = Some(member.id)
                    /\ row.chat_id = M(s).chat.id
                    /\ row.data = Some(<<Member("username", member.username),
                                         Member("first_name", member.first_name)>>)
          /\ (Commit(s) /\ Handler(s) = "on_service" /\ TruthySeq(M(s).new_chat_members)) =>
                LET members == Val(M(s).new_chat_members)
                    own == OwnEvents(s)
                IN  /\ Len(own) = Len(members)
                    /\ \A k \in 1..Len(members) :
                          /\ own[k].type = "member_joined"
                          /\ own[k].user_id = Some(members[k].id)
                    /\ disk'.events = db.events]_vars

C14_Witness ==
    /\ \E e \in EventIds : status[e] = "ok" /\ updOf[e] = 5 /\ durableA[e] = 2
    /\ Len(disk.events) = 2
    /\ disk.events[1].user_id = Some(200)
    /\ disk.events[2].user_id = Some(300)
    /\ disk.events[2].data = Some(<< <<"username", JNull>>, <<"first_name", JVal("Cid")>> >>)

\* C15: a service event of a recognized kind appends Event rows of one
\* type only: one row per new member of type "member_joined", or exactly
\* one row of type "member_left", "title_changed" or "message_pinned";
\* never zero rows and never rows of two types.
C15_OneCategory ==
    [][\A s \in Slots :
          (Commit(s) /\ Handler(s) = "on_service") =>
             LET own == OwnEvents(s)
                 m == M(s)
             IN  /\ Len(own) >= 1
                 /\ \A k \in 1..Len(own) : own[k].type = own[1].type
                 /\ own[1].type \in
                      {"member_joined", "member_left", "title_changed", "message_pinned"}
                 /\ own[1].type = "member_joined" => Len(own) = Len(Val(m.new_chat_members))
                 /\ own[1].type # "member_joined" => Len(own) = 1
                 /\ own[1].type = "member_joined" <=> m.content_type = "new_chat_members"
                 /\ own[1].type = "member_left" <=> m.content_type = "left_chat_member"
                 /\ own[1].type = "title_changed" <=> m.content_type = "new_chat_title"
                 /\ own[1].type = "message_pinned" <=> m.content_type = "pinned_message"]_vars

C15_Witness ==
    /\ \E e \in EventIds : status[e] = "ok" /\ updOf[e] = 5 /\ durableA[e] = 2
    /\ \E e \in EventIds : status[e] = "ok" /\ updOf[e] = 8 /\ durableA[e] = 1
    /\ Len(disk.events) = 3

\* C16: when a title-changed event has been processed without failure and
\* without interleaving, the Chat row of its chat carries the event's new
\* title, whatever title the event's chat field had, and the event has
\* appended one "title_changed" Event row whose data blob holds the new
\* title.
C16_TitleChanged ==
    [][\A s \in Slots :
          (Commit(s) /\ Handler(s) = "on_service" /\ M(s).content_type = "new_chat_title") =>
             LET m == M(s)
                 own == OwnEvents(s)
             IN  /\ {r \in disk'.chats : r.chat_id = m.chat.id}
                      = {[chat_id |-> m.chat.id, title |-> m.new_chat_title,
                          type |-> m.chat.type]}
                 /\ Len(own) = 1
                 /\ own[1].type = "title_changed"
                 /\ own[1].data = Some(<<Member("new_title", m.new_chat_title)>>)
                 /\ disk'.events = db.events]_vars

C16_Witness ==
    /\ \E e \in EventIds :
          /\ status[e] = "ok"
          /\ Catalogue[updOf[e]].content_type = "new_chat_title"
          /\ Catalogue[updOf[e]].chat.title # Catalogue[updOf[e]].new_chat_title
    /\ \E r \in disk.chats : r.chat_id = -1001 /\ r.title = Some("Renamed")
    /\ \E i \in 1..Len(disk.events) :
          /\ disk.events[i].type = "title_changed"
          /\ disk.events[i].data = Some(<< <<"new_title", JVal("Renamed")>> >>)

\* C17: an event of any category whose sender is absent is processed to its
\* commit: after the chat upsert the handler goes on without a User upsert
\* for a sender, the Message row, or the title_changed / message_pinned
\* Event row, is written with user_id = null, and the event ends without
\* failure with its rows durable.
C17_AbsentSender ==
    [][\A s \in Slots :
          (pc[s] # "idle" /\ IsNone(M(s).from_user)) =>
             LET m == M(s)
                 e == evOf[s]
             IN  /\ UpsertChat(s) =>
                       /\ pc'[s] = AfterRefs(Handler(s), m, download_media)
                       /\ db'.users = db.users
                 /\ ~ (UpsertUser(s) /\ pc[s] = "upsert_user")
                 /\ InsertMessage(s) =>
                       /\ Len(db'.messages) = Len(db.messages) + 1
                       /\ db'.messages[Len(db'.messages)].user_id = None
                       /\ db'.messages[Len(db'.messages)].msg_id = m.message_id
                 /\ (TitleInsert(s) \/ PinnedInsert(s)) =>
                       /\ Len(db'.events) = Len(db.events) + 1
                       /\ db'.events[Len(db'.events)].user_id = None
                 /\ Commit(s) =>
                       /\ status'[e] = "ok"
                       /\ pendingA[e] >= 1
                       /\ durableA'[e] = pendingA[e]
                       /\ disk' = db
                       /\ \A u \in db.users \ disk.users :
                             /\ TruthySeq(m.new_chat_members)
                             /\ \E k \in 1..Len(Val(m.new_chat_members)) :
                                   Val(m.new_chat_members)[k].id = u.user_id]_vars

C17_Witness ==
    /\ \E e \in EventIds :
          /\ status[e] = "ok" /\ updOf[e] > Len(Catalogue)
          /\ Updates[updOf[e]].content_type = "pinned_message"
    /\ \E e \in EventIds :
          /\ status[e] = "ok" /\ updOf[e] > Len(Catalogue)
          /\ Route(Updates[updOf[e]]) = "on_text"
    /\ Len(disk.messages) = 1 /\ disk.messages[1].user_id = None
    /\ Len(disk.events) = 1 /\ disk.events[1].type = "message_pinned"
    /\ disk.events[1].user_id = None
    /\ disk.users = {}

\* The keys of a dict, of its items with a value, and of a stored blob; a
\* null blob has no member.
DictItems(d) == IF IsNone(d) THEN <<>> ELSE Val(d)
BlobMembers(b) == IF IsNone(b) THEN <<>> ELSE Val(b)
KeysOf(seq) == {seq[i][1] : i \in 1..Len(seq)}
NonNullKeys(d) == {DictItems(d)[i][1] : i \in {j \in 1..Len(DictItems(d)) : ~IsNone(DictItems(d)[j][2])}}

\* C18: insert_message appends one Message row whose media_meta blob holds
\* exactly the keys of the given dict whose value is not None, each with
\* its value unchanged, and no null member; a dict with items gives a blob,
\* and no dict (or the empty dict) gives a null media_meta.
C18_MetaStripsNulls ==
    [][\A media_meta \in Dicts :
          CallInsertMessage(media_meta) =>
             LET row == db'.messages[Len(db.messages) + 1]
                 items == DictItems(media_meta)
                 blob == BlobMembers(row.media_meta)
             IN  /\ Len(db'.messages) = Len(db.messages) + 1
                 /\ IsNone(media_meta) => IsNone(row.media_meta)
                 /\ Len(items) > 0 <=> ~IsNone(row.media_meta)
                 /\ KeysOf(blob) = NonNullKeys(media_meta)
                 /\ Len(blob) = Cardinality(NonNullKeys(media_meta))
                 /\ \A i \in 1..Len(blob) :
                       /\ blob[i][2] # JNull
                       /\ \E j \in 1..Len(items) :
                             /\ items[j][1] = blob[i][1]
                             /\ ~IsNone(items[j][2])
                             /\ blob[i][2] = JVal(Val(items[j][2]))]_vars

C18_Witness ==
    /\ Len(arg) = 2 /\ arg[1] = "insert_message"
    /\ arg[2] = Some(<< <<"width", None>>, <<"name", Some("a.pdf")>> >>)
    /\ Len(db.messages) = 2
    /\ db.messages[1].media_meta = None
    /\ db.messages[2].media_meta = Some(<< <<"name", JVal("a.pdf")>> >>)

\* C19: insert_event appends exactly one Event row; the data blob of a
\* given dict holds every item of the dict in order, a None value as the
\* JSON null and any other value unchanged; no dict (or the empty dict)
\* gives a null data.
C19_DataVerbatim ==
    [][\A data \in Dicts :
          CallInsertEvent(data) =>
             LET row == db'.events[Len(db.events) + 1]
                 items == DictItems(data)
                 blob == BlobMembers(row.data)
             IN  /\ Len(db'.events) = Len(db.events) + 1
                 /\ SubSeq(db'.events, 1, Len(db.events)) = db.events
                 /\ db'.messages = db.messages
                 /\ IsNone(data) => IsNone(row.data)
                 /\ Len(items) > 0 <=> ~IsNone(row.data)
                 /\ Len(blob) = Len(items)
                 /\ \A i \in 1..Len(items) :
                       /\ blob[i][1] = items[i][1]
                       /\ IsNone(items[i][2]) => blob[i][2] = JNull
                       /\ ~IsNone(items[i][2]) => blob[i][2] = JVal(Val(items[i][2]))]_vars

C19_Witness ==
    /\ Len(arg) = 2 /\ arg[1] = "insert_event"
    /\ arg[2] = Some(<< <<"width", None>>, <<"name", Some("a.pdf")>> >>)
    /\ Len(db.events) = 2
    /\ db.events[1].data = None
    /\ db.events[2].data = Some(<< <<"width", JNull>>, <<"name", JVal("a.pdf")>> >>)

\* C20: for any input file name containing "../", the output of
\* _sanitize_filename contains no "/" and no "..".
C20_NoTraversal ==
    (~IsNone(res) /\ Contains(arg, <<".", ".", "/">>)) =>
        /\ ~Contains(Val(res), <<"/">>)
        /\ ~Contains(Val(res), <<".", ".">>)

\* path names an entry directly inside dir: dir, a separator, and one
\* component that is neither empty nor "." nor "..".
DirectChild(path, dir) ==
    /\ Len(path) > Len(dir) + 1
    /\ SubSeq(path, 1, Len(dir) + 1) = dir \o <<"/">>
    /\ LET name == SubSeq(path, Len(dir) + 2, Len(path))
       IN  /\ ~Contains(name, <<"/">>)
           /\ name # <<".">>
           /\ name # <<".", ".">>

\* C21: for every remote file path, the destination path that on_media
\* builds is a direct child of the media directory: never the directory
\* itself, its parent, or a path outside it.
C21_DestInsideMediaDir ==
    ~IsNone(res) => DirectChild(Val(res), media_dir)

C21_Witness ==
    /\ arg = <<".", ".", "/", ".", ".">>
    /\ res = Some(media_dir \o <<"/", "-", "1", "0", "0", "1", "_", "2", "0", "_", ".", ".">>)

\* C22: _sanitize_filename is idempotent: applied to its own output it
\* returns that output.
C22_Idempotent ==
    [][SanitizeAgain => res' = res]_vars

C22_Witness ==
    /\ arg = <<"_", "é", ".", "-">>
    /\ res = Some(<<"_", "é", ".", "-">>)

\* C23: for every input, the output of _sanitize_filename has only
\* characters of [A-Za-z0-9_.-].
C23_AsciiOnly ==
    ~IsNone(res) => \A i \in 1..Len(Val(res)) : Val(res)[i] \in {"a", "_", ".", "-"}

\* C24: _extract_forward_info returns (null, null) if and only if the
\* message has no forward origin; for an origin of any of the four kinds the
\* returned name is non-null.
C24_ForwardInfo ==
    (~IsNone(res) /\ res[1] = "forward") =>
        /\ (IsNone(res[2]) /\ IsNone(res[3])) <=> IsNone(arg.forward_origin)
        /\ ~IsNone(arg.forward_origin) => ~IsNone(res[3])

C24_Witness ==
    /\ ~IsNone(res) /\ res[1] = "forward"
    /\ ~IsNone(arg.forward_origin)
    /\ Val(arg.forward_origin).kind = "hidden_user"
    /\ IsNone(res[2])
    /\ res[3] = Some(S("Hidden Person"))

\* The field set of each media kind: the keys of its metadata map, each
\* with the attribute of the sub-object it is read from.
FieldSet(kind) ==
    CASE kind = "photo" -> << <<"size", "file_size">>, <<"width", "width">>, <<"height", "height">> >>
      [] kind = "video" -> << <<"size", "file_size">>, <<"mime", "mime_type">>, <<"name", "file_name">>, <<"duration", "duration">>, <<"width", "width">>, <<"height", "height">> >>
      [] kind = "document" -> << <<"size", "file_size">>, <<"mime", "mime_type">>, <<"name", "file_name">> >>
      [] kind = "audio" -> << <<"size", "file_size">>, <<"mime", "mime_type">>, <<"name", "file_name">>, <<"duration", "duration">> >>
      [] kind = "voice" -> << <<"size", "file_size">>, <<"mime", "mime_type">>, <<"duration", "duration">> >>
      [] kind = "video_note" -> << <<"size", "file_size">>, <<"duration", "duration">>, <<"length", "length">> >>
      [] kind = "sticker" -> << <<"emoji", "emoji">>, <<"set_name", "set_name">>, <<"width", "width">>, <<"height", "height">> >>
      [] kind = "animation" -> << <<"size", "file_size">>, <<"mime", "mime_type">>, <<"name", "file_name">>, <<"duration", "duration">>, <<"width", "width">>, <<"height", "height">> >>

\* The declared kind is a media kind and its sub-object is present.
WellFormed(m) ==
    /\ m.content_type \in MEDIA_CONTENT_TYPES
    /\ IF m.content_type = "photo" THEN TruthySeq(m.photo) ELSE TruthyObj(m[m.content_type])

\* The sub-objects the metadata may be read from: for a photo, its sizes.
SourceObjects(m) ==
    IF m.content_type = "photo" THEN {Val(m.photo)[i] : i \in 1..Len(Val(m.photo))}
    ELSE {Val(m[m.content_type])}

PresentKeys(kind, o) ==
    {FieldSet(kind)[i][1] : i \in {j \in 1..Len(FieldSet(kind)) : ~IsNone(o[FieldSet(kind)[j][2]])}}

AllFields(kind, o) ==
    [i \in 1..Len(FieldSet(kind)) |-> <<FieldSet(kind)[i][1], o[FieldSet(kind)[i][2]]>>]

\* C25 as stated: for each media kind, _extract_media_meta on a message
\* whose declared kind has its sub-object returns a non-null file
\* reference, the kind's label, and a metadata map whose keys are exactly
\* the fields of the kind's field set that are non-null in the source.
C25_MetaKeysNonNull ==
    (~IsNone(res) /\ res[1] = "media" /\ WellFormed(arg)) =>
        /\ ~IsNone(res[2])
        /\ ~IsNone(res[3])
        /\ res[4] = S(arg.content_type)
        /\ \E o \in SourceObjects(arg) :
              /\ Val(res[2]) = o.file_id
              /\ KeysOf(Val(res[3])) = PresentKeys(arg.content_type, o)

\* C25 amended: the returned map has every field of the kind's field set,
\* in order, with the source's value, null where the source has none; the
\* keys left when insert_message strips the null values are exactly the
\* fields that are non-null in the source.
C25_MetaAllFields ==
    (~IsNone(res) /\ res[1] = "media" /\ WellFormed(arg)) =>
        /\ ~IsNone(res[2])
        /\ ~IsNone(res[3])
        /\ res[4] = S(arg.content_type)
        /\ \E o \in SourceObjects(arg) :
              /\ Val(res[2]) = o.file_id
              /\ Val(res[3]) = AllFields(arg.content_type, o)
              /\ KeysOf(strip_none(Val(res[3]))) = PresentKeys(arg.content_type, o)

C25_Witness ==
    /\ ~IsNone(res) /\ res[1] = "media"
    /\ arg.content_type = "sticker"
    /\ arg.sticker = Some(StickerObj(FALSE))
    /\ res[2] = Some("st1")
    /\ res[3] = Some(<< <<"emoji", None>>, <<"set_name", None>>, <<"width", Some(512)>>,
                        <<"height", Some(512)>> >>)
    /\ res[4] = S("sticker")

\* C26: for a photo with a non-empty list of sizes in any order,
\* _extract_media_meta returns the file reference, size, width and height
\* of the largest size of the list.
Area(p) == Val(p.width) * Val(p.height)
C26_LargestPhoto ==
    (~IsNone(res) /\ res[1] = "media" /\ arg.content_type = "photo" /\ TruthySeq(arg.photo)) =>
        LET sizes == {Val(arg.photo)[i] : i \in 1..Len(Val(arg.photo))}
            largest == CHOOSE p \in sizes : \A q \in sizes : Area(q) <= Area(p)
        IN  /\ res[2] = Some(largest.file_id)
            /\ res[3] = Some(<< <<"size", largest.file_size>>, <<"width", largest.width>>,
                                <<"height", largest.height>> >>)

\* An activity insert of the handler in slot s.
ActivityInsert(s) ==
    \/ InsertMessage(s)
    \/ MemberInsert(s)
    \/ LeftInsert(s)
    \/ TitleInsert(s)
    \/ PinnedInsert(s)

\* C27: the operations of one event occur in this order: the chat upsert
\* first, then the sender's user upsert if there is a sender, then the
\* activity insert(s), then one commit, reached from the last insert, after
\* which the handler has returned; no insert precedes the chat upsert and no
\* commit precedes an insert of the same event.
C27_OperationOrder ==
    /\ [](\A e \in EventIds :
            status[e] \in {"ok", "failed", "propagated"} => \A s \in Slots : evOf[s] # e)
    /\ [][\A s \in Slots :
            pc[s] # "idle" =>
               LET e == evOf[s]
                   sender == TruthyObj(M(s).from_user)
               IN  /\ UpsertChat(s) =>
                         /\ pendingW[e] = 0 /\ durableW[e] = 0
                         /\ pc'[s] = "upsert_user" <=> sender
                   /\ UpsertUser(s) =>
                         sender /\ pendingW[e] = 1 /\ pendingA[e] = 0
                   /\ ActivityInsert(s) =>
                         /\ pendingW[e] >= (IF sender THEN 2 ELSE 1)
                         /\ durableW[e] = 0 /\ durableA[e] = 0
                         /\ status[e] = "running"
                   /\ (pc[s] # "commit" /\ pc'[s] = "commit") => ActivityInsert(s)
                   /\ Commit(s) =>
                         /\ pendingA[e] >= 1
                         /\ durableW[e] = 0
                         /\ status'[e] = "ok" /\ pc'[s] = "idle"]_vars

C27_Witness ==
    /\ \E e \in EventIds :
          status[e] = "ok" /\ updOf[e] = 5 /\ durableW[e] = 6 /\ durableA[e] = 2
    /\ \E e \in EventIds :
          status[e] = "ok" /\ updOf[e] = 7 /\ durableW[e] = 3 /\ durableA[e] = 1

\* C28: the storage layer enforces referential integrity at write time:
\* every Message and Event row names a chat_id that has a Chat row, and
\* every Message row with a user_id names one that has a User row, because
\* an insert without the referenced row is rejected and adds no row.
C28_ReferencesEnforced ==
    /\ \A i \in 1..Len(db.messages) :
          /\ \E c \in db.chats : c.chat_id = db.messages[i].chat_id
          /\ ~IsNone(db.messages[i].user_id) =>
                \E u \in db.users : u.user_id = Val(db.messages[i].user_id)
    /\ \A i \in 1..Len(db.events) :
          \E c \in db.chats : c.chat_id = db.events[i].chat_id

\* The filter of on_text: F.text, ~F.text.startswith("/")
TextFilter(m) == TruthySeq(m.text) /\ ~startswith(Val(m.text), "/")

\* C29: a new message is handled by exactly one of on_text, on_media,
\* on_service and on_other, the first whose filter matches; a non-service
\* message processed to its commit has added exactly one Message row and
\* no Event row, a service event only Event rows and no Message row.
C29_OneHandlerOneTable ==
    [][\A s \in Slots :
          (Commit(s) /\ M(s).upd = "message") =>
             LET h == Handler(s)
                 m == M(s)
                 e == evOf[s]
             IN  /\ h \in {"on_text", "on_media", "on_service", "on_other"}
                 /\ h = "on_text" <=> TextFilter(m)
                 /\ h = "on_media" <=> (~TextFilter(m) /\ m.content_type \in MEDIA_CONTENT_TYPES)
                 /\ h = "on_service" <=>
                       (~TextFilter(m) /\ m.content_type \in SERVICE_CONTENT_TYPES)
                 /\ h # "on_service" =>
                       /\ Len(db.messages) = Len(disk.messages) + 1
                       /\ db.events = disk.events
                       /\ pendingA[e] = 1
                 /\ h = "on_service" =>
                       /\ db.messages = disk.messages
                       /\ Len(db.events) >= Len(disk.events) + 1
                       /\ pendingA[e] = Len(db.events) - Len(disk.events)
                 /\ disk' = db]_vars

C29_Witness ==
    /\ \E e \in EventIds : status[e] = "ok" /\ updOf[e] = 9 /\ durableA[e] = 1
    /\ \E e \in EventIds : status[e] = "ok" /\ updOf[e] = 5 /\ durableA[e] = 2
    /\ Len(disk.messages) = 1 /\ disk.messages[1].type = S("other")
    /\ Len(disk.events) = 2

\* C30: a media fetch is attempted for an event only when download_media
\* is set, the event is handled by on_media and the extracted file
\* reference is non-null; it is attempted at most once and before the
\* Message insert; an edited-media event never triggers a fetch, and with
\* the flag off no event does.
C30_FetchGuard ==
    /\ [](\A e \in EventIds :
            /\ fetches[e] <= 1
            /\ fetches[e] >= 1 =>
                  /\ download_media
                  /\ Route(Updates[updOf[e]]) = "on_media"
                  /\ Updates[updOf[e]].upd = "message"
                  /\ ~IsNone(_extract_media_meta(Updates[updOf[e]])[1]))
    /\ [][\A e \in EventIds :
            fetches'[e] # fetches[e] =>
               /\ fetches[e] = 0 /\ fetches'[e] = 1
               /\ pendingA[e] = 0 /\ durableA[e] = 0
               /\ \E s \in Slots :
                     /\ evOf[s] = e
                     /\ pc[s] = "get_file"
                     /\ pc'[s] \in {"download_file", "insert_message"}]_vars

C30_Witness ==
    /\ download_media
    /\ \E e \in EventIds :
          status[e] = "ok" /\ updOf[e] = 3 /\ fetches[e] = 1 /\ durableA[e] = 1
    /\ \E e \in EventIds :
          status[e] = "ok" /\ updOf[e] = 4 /\ fetches[e] = 0 /\ durableA[e] = 1

ChatKeys(store) == {r.chat_id : r \in store.chats}
UserKeys(store) == {r.user_id : r \in store.users}

\* C31: upsert_chat for a key leaves every Chat row of another key and all
\* User, Message and Event rows unchanged; upsert_user for a key leaves
\* every User row of another key and all Chat, Message and Event rows
\* unchanged; no step of the system removes a Chat or User row.
C31_UpsertFrame ==
    [][/\ \A s \in Slots :
            /\ (UpsertChat(s) \/ TitleUpsert(s)) =>
                  LET k == M(s).chat.id
                  IN  /\ {r \in db'.chats : r.chat_id # k} = {r \in db.chats : r.chat_id # k}
                      /\ Cardinality({r \in db'.chats : r.chat_id = k}) = 1
                      /\ db'.users = db.users
                      /\ db'.messages = db.messages
                      /\ db'.events = db.events
                      /\ disk' = disk
            /\ UpsertUser(s) =>
                  LET k == Val(M(s).from_user).id
                  IN  /\ {r \in db'.users : r.user_id # k} = {r \in db.users : r.user_id # k}
                      /\ Cardinality({r \in db'.users : r.user_id = k}) = 1
                      /\ db'.chats = db.chats
                      /\ db'.messages = db.messages
                      /\ db'.events = db.events
                      /\ disk' = disk
            /\ MemberUpsert(s) =>
                  LET k == Val(M(s).new_chat_members)[idx[s]].id
                  IN  /\ {r \in db'.users : r.user_id # k} = {r \in db.users : r.user_id # k}
                      /\ Cardinality({r \in db'.users : r.user_id = k}) = 1
                      /\ db'.chats = db.chats
                      /\ db'.messages = db.messages
                      /\ db'.events = db.events
                      /\ disk' = disk
      /\ ChatKeys(db) \subseteq ChatKeys(db')
      /\ UserKeys(db) \subseteq UserKeys(db')
      /\ ChatKeys(disk) \subseteq ChatKeys(disk')
      /\ UserKeys(disk) \subseteq UserKeys(disk')]_vars

C31_Witness ==
    /\ \E e \in EventIds : status[e] = "ok" /\ updOf[e] = 3
    /\ \E e \in EventIds : status[e] = "ok" /\ updOf[e] = 7
    /\ disk.chats = {[chat_id |-> 7, title |-> None, type |-> Some("private")],
                     [chat_id |-> -1001, title |-> Some("Renamed"), type |-> Some("supergroup")]}
    /\ UserKeys(disk) = {200}

====
